---- MODULE Spec2Model ----
(***************************************************************************)
(* Model of the Betty Blocks WASM component runner (examples/python):      *)
(* ComponentConfig validation, command construction, and the execution of  *)
(* the wasmtime child process with its timeout and result classification.  *)
(*                                                                         *)
(* Python strings are sequences of one-character strings.  Python objects  *)
(* are records [t, s, n, kv]: t the type name, s the characters of a str,  *)
(* n the number of an int/bool/float, kv the items of a dict in insertion  *)
(* order, each item a pair <<key, value>>.                                 *)
(***************************************************************************)
EXTENDS Integers, Sequences, FiniteSets, TLC

VARIABLES
    runner,      \* the BettyBlocksRunner's fields, once it is constructed
    api,         \* the entry point called last
    args,        \* the arguments of the construction or of run_single
    config,      \* the ComponentConfig the construction produced
    pc,          \* "ready", or "waiting" inside subprocess.run
    child,       \* the child process of the current call
    spawned,     \* how many child processes the current call has started
    cmd,         \* the argument vector _build_command returned
    now,         \* the clock, time.time()
    start_time,  \* the clock at the entry of execute_component
    raised,      \* the exception raised inside execute_component's try
    outcome,     \* what the call handed to its caller
    fs,          \* the absolute paths of the WASM files that exist
    path,        \* the executables found on the search path
    ctor,        \* the runner construction and how it ended
    log,         \* the events the current execute_component call logged
    sys_exit     \* the exit status of the process, None while it runs

vars == <<runner, api, args, config, pc, child, spawned, cmd, now,
          start_time, raised, outcome, fs, path, ctor, log, sys_exit>>

(***************************************************************************)
(* Bounds of the model.                                                    *)
(***************************************************************************)
\* Largest clock reading at which a call may start.
MaxStart == 1
\* Stand-in for the size limit of 1024 * 1024 characters (runners.py:26):
\* the child's streams range over strings a little longer than this.
MaxOutput == 64
\* How many characters beyond the limit a stream of the child may have.
MaxExcess == 2
\* How many single units of time a waiting call is followed through.
MaxTicks == 1
\* How late, at most, the expiry of the timeout is noticed.
MaxLag == 1

(***************************************************************************)
(* Strings.                                                                *)
(***************************************************************************)
Rep(c, n) == [i \in 1..n |-> c]

Digits == <<"0", "1", "2", "3", "4", "5", "6", "7", "8", "9">>

HexChars == {"0", "1", "2", "3", "4", "5", "6", "7", "8", "9",
             "a", "b", "c", "d", "e", "f"}

\* Characters str.strip() removes (the ones the model's strings use).
Whitespace == {" ", "\n"}

RECURSIVE NatToStr(_)
NatToStr(n) ==
    IF n < 10 THEN <<Digits[n + 1]>>
    ELSE NatToStr(n \div 10) \o <<Digits[(n % 10) + 1]>>

\* str(int)
IntToStr(n) == IF n < 0 THEN <<"-">> \o NatToStr(-n) ELSE NatToStr(n)

IsPrefix(p, s) == Len(p) <= Len(s) /\ SubSeq(s, 1, Len(p)) = p

IsSuffix(p, s) ==
    Len(p) <= Len(s) /\ SubSeq(s, Len(s) - Len(p) + 1, Len(s)) = p

Contains(s, p) ==
    \E i \in 1..(Len(s) - Len(p) + 1) : SubSeq(s, i, i + Len(p) - 1) = p

RECURSIVE LStrip(_)
LStrip(s) ==
    IF s # <<>> /\ Head(s) \in Whitespace THEN LStrip(Tail(s)) ELSE s

RECURSIVE RStrip(_)
RStrip(s) ==
    IF s # <<>> /\ s[Len(s)] \in Whitespace
    THEN RStrip(SubSeq(s, 1, Len(s) - 1)) ELSE s

\* str.strip()
Strip(s) == RStrip(LStrip(s))

(***************************************************************************)
(* Python objects.                                                         *)
(***************************************************************************)
PyStr(s) == [t |-> "str", s |-> s, n |-> 0, kv |-> <<>>]
PyInt(n) == [t |-> "int", s |-> <<>>, n |-> n, kv |-> <<>>]
PyBool(b) == [t |-> "bool", s |-> <<>>, n |-> IF b THEN 1 ELSE 0, kv |-> <<>>]
\* A float with an integral value, such as 30.0.
PyFloat(n) == [t |-> "float", s |-> <<>>, n |-> n, kv |-> <<>>]
PyNone == [t |-> "NoneType", s |-> <<>>, n |-> 0, kv |-> <<>>]
PyDict(kv) == [t |-> "dict", s |-> <<>>, n |-> 0, kv |-> kv]
PyList == [t |-> "list", s |-> <<>>, n |-> 0, kv |-> <<>>]
\* An object json cannot serialise, such as set().
PySet == [t |-> "set", s |-> <<>>, n |-> 0, kv |-> <<>>]

\* isinstance(v, int): bool is a subclass of int.
IsInstanceInt(v) == v.t \in {"int", "bool"}

\* bool(v)
Truthy(v) ==
    CASE v.t = "str" -> v.s # <<>>
      [] v.t \in {"int", "bool", "float"} -> v.n # 0
      [] v.t = "dict" -> v.kv # <<>>
      [] v.t = "NoneType" -> FALSE
      [] v.t = "list" -> FALSE
      [] OTHER -> FALSE

(***************************************************************************)
(* Exceptions and the messages of the configuration checks.                *)
(***************************************************************************)
MSG_APP_EMPTY ==
    <<"a", "p", "p", "l", "i", "c", "a", "t", "i", "o", "n", "_", "i", "d", " ", "m", "u", "s", "t", " ", "b", "e", " ", "a", " ", "n", "o", "n", "-", "e", "m", "p", "t", "y", " ", "s", "t", "r", "i", "n", "g">>

MSG_APP_HEX ==
    <<"a", "p", "p", "l", "i", "c", "a", "t", "i", "o", "n", "_", "i", "d", " ", "m", "u", "s", "t", " ", "b", "e", " ", "a", " ", "3", "2", "-", "c", "h", "a", "r", "a", "c", "t", "e", "r", " ", "h", "e", "x", " ", "s", "t", "r", "i", "n", "g">>

MSG_ACT_EMPTY ==
    <<"a", "c", "t", "i", "o", "n", "_", "i", "d", " ", "m", "u", "s", "t", " ", "b", "e", " ", "a", " ", "n", "o", "n", "-", "e", "m", "p", "t", "y", " ", "s", "t", "r", "i", "n", "g">>

MSG_ACT_HEX ==
    <<"a", "c", "t", "i", "o", "n", "_", "i", "d", " ", "m", "u", "s", "t", " ", "b", "e", " ", "a", " ", "3", "2", "-", "c", "h", "a", "r", "a", "c", "t", "e", "r", " ", "h", "e", "x", " ", "s", "t", "r", "i", "n", "g">>

MSG_TIMEOUT_POSITIVE ==
    <<"t", "i", "m", "e", "o", "u", "t", " ", "m", "u", "s", "t", " ", "b", "e", " ", "a", " ", "p", "o", "s", "i", "t", "i", "v", "e", " ", "i", "n", "t", "e", "g", "e", "r">>

MSG_TIMEOUT_MAX ==
    <<"t", "i", "m", "e", "o", "u", "t", " ", "c", "a", "n", "n", "o", "t", " ", "e", "x", "c", "e", "e", "d", " ", "3", "0", "0", " ", "s", "e", "c", "o", "n", "d", "s">>

MSG_PAYLOAD_DICT ==
    <<"p", "a", "y", "l", "o", "a", "d", " ", "m", "u", "s", "t", " ", "b", "e", " ", "a", " ", "d", "i", "c", "t", "i", "o", "n", "a", "r", "y">>

MSG_INPUT_DICT ==
    <<"i", "n", "p", "u", "t", "_", "d", "a", "t", "a", " ", "m", "u", "s", "t", " ", "b", "e", " ", "a", " ", "v", "a", "l", "i", "d", " ", "d", "i", "c", "t", "i", "o", "n", "a", "r", "y">>

MSG_WASM_NOT_FOUND ==
    <<"W", "A", "S", "M", " ", "f", "i", "l", "e", " ", "n", "o", "t", " ", "f", "o", "u", "n", "d", ":", " ">>

NoError == [exc |-> "none", msg |-> <<>>]

Raise(exc, msg) == [exc |-> exc, msg |-> msg]

ConfigurationError(msg) == Raise("ConfigurationError", msg)

\* The exception classes that derive from Exception (KeyboardInterrupt and
\* SystemExit do not).
ExceptionClasses ==
    {"ConfigurationError", "ExecutionError", "WasmEnvironmentError",
     "TimeoutExpired", "OSError", "FileNotFoundError", "PermissionError",
     "TypeError", "UnicodeDecodeError"}

\* issubclass(exc, OSError)
IsOSError(exc) == exc \in {"OSError", "FileNotFoundError", "PermissionError"}

(***************************************************************************)
(* ComponentConfig (config.py).                                            *)
(***************************************************************************)
ID_LENGTH == 32

TIMEOUT_MAX == 300

\* id_pattern.match(s) for re.compile(r"^[a-f0-9]{32}$"): without
\* re.MULTILINE, "$" matches at the end of the string and also just before
\* a newline that is the last character of the string.
IdPatternMatch(s) ==
    /\ Len(s) \in {ID_LENGTH, ID_LENGTH + 1}
    /\ \A i \in 1..ID_LENGTH : s[i] \in HexChars
    /\ Len(s) = ID_LENGTH + 1 => s[ID_LENGTH + 1] = "\n"

ValidateIds(application_id, action_id) ==
    IF ~Truthy(application_id) \/ application_id.t # "str"
    THEN ConfigurationError(MSG_APP_EMPTY)
    ELSE IF ~IdPatternMatch(application_id.s)
    THEN ConfigurationError(MSG_APP_HEX)
    ELSE IF ~Truthy(action_id) \/ action_id.t # "str"
    THEN ConfigurationError(MSG_ACT_EMPTY)
    ELSE IF ~IdPatternMatch(action_id.s)
    THEN ConfigurationError(MSG_ACT_HEX)
    ELSE NoError

\* Faulty variant of ValidateTimeout: the upper limit is not checked.
ValidateTimeoutNoMax(timeout) ==
    IF ~IsInstanceInt(timeout) \/ timeout.n <= 0
    THEN ConfigurationError(MSG_TIMEOUT_POSITIVE)
    ELSE NoError

ValidateTimeout(timeout) ==
    IF ~IsInstanceInt(timeout) \/ timeout.n <= 0
    THEN ConfigurationError(MSG_TIMEOUT_POSITIVE)
    ELSE IF timeout.n > TIMEOUT_MAX
    THEN ConfigurationError(MSG_TIMEOUT_MAX)
    ELSE NoError

ValidatePayload(payload) ==
    IF payload.t # "dict"
    THEN ConfigurationError(MSG_PAYLOAD_DICT)
    ELSE NoError

\* __post_init__: the first check that raises ends the construction.
PostInit(application_id, action_id, payload, timeout) ==
    LET ids == ValidateIds(application_id, action_id)
        tmo == ValidateTimeout(timeout)
        pld == ValidatePayload(payload)
    IN  IF ids # NoError THEN ids
        ELSE IF tmo # NoError THEN tmo
        ELSE pld

NoConfig == [set |-> FALSE, application_id |-> PyNone, action_id |-> PyNone,
             payload |-> PyNone, wasm_file |-> <<>>, timeout |-> PyNone]

ComponentConfig(application_id, action_id, payload, wasm_file, timeout) ==
    [set |-> TRUE, application_id |-> application_id, action_id |-> action_id,
     payload |-> payload, wasm_file |-> wasm_file, timeout |-> timeout]

(***************************************************************************)
(* json.dumps with its defaults (separators ", " and ": ", ensure_ascii),  *)
(* and json.loads.                                                         *)
(***************************************************************************)
JsonKeyTypes == {"str", "int", "bool", "float", "NoneType"}

RECURSIVE JsonSerializable(_)
JsonSerializable(v) ==
    CASE v.t \in {"str", "int", "bool", "float", "NoneType", "list"} -> TRUE
      [] v.t = "dict" ->
            \A i \in 1..Len(v.kv) :
                /\ v.kv[i][1].t \in JsonKeyTypes
                /\ JsonSerializable(v.kv[i][2])
      [] OTHER -> FALSE

EscapeChar(c) ==
    CASE c = "\"" -> <<"\\", "\"">>
      [] c = "\\" -> <<"\\", "\\">>
      [] c = "\n" -> <<"\\", "n">>
      [] OTHER -> <<c>>

RECURSIVE EscapeChars(_)
EscapeChars(s) ==
    IF s = <<>> THEN <<>> ELSE EscapeChar(Head(s)) \o EscapeChars(Tail(s))

\* Faulty variant of JsonString: the characters are copied unescaped.
JsonStringUnescaped(s) == <<"\"">> \o s \o <<"\"">>

JsonString(s) == <<"\"">> \o EscapeChars(s) \o <<"\"">>

JsonScalar(v) ==
    CASE v.t = "str" -> JsonString(v.s)
      [] v.t = "int" -> IntToStr(v.n)
      [] v.t = "float" -> IntToStr(v.n) \o <<".", "0">>
      [] v.t = "bool" -> IF v.n = 1 THEN <<"t", "r", "u", "e">>
                         ELSE <<"f", "a", "l", "s", "e">>
      [] v.t = "NoneType" -> <<"n", "u", "l", "l">>
      [] v.t = "list" -> <<"[", "]">>

\* A key that is not a str is written as the string of its JSON form.
JsonKey(k) == IF k.t = "str" THEN JsonString(k.s) ELSE JsonString(JsonScalar(k))

RECURSIVE JsonDumps(_), JsonItems(_, _)
JsonItems(kv, i) ==
    IF i > Len(kv) THEN <<>>
    ELSE (IF i > 1 THEN <<",", " ">> ELSE <<>>)
         \o JsonKey(kv[i][1]) \o <<":", " ">> \o JsonDumps(kv[i][2])
         \o JsonItems(kv, i + 1)

JsonDumps(v) ==
    IF v.t = "dict" THEN <<"{">> \o JsonItems(v.kv, 1) \o <<"}">>
    ELSE JsonScalar(v)

ParseFail == [ok |-> FALSE, v |-> PyNone, i |-> 0]

ParseOk(v, i) == [ok |-> TRUE, v |-> v, i |-> i]

RECURSIVE SkipWs(_, _)
SkipWs(s, i) ==
    IF i <= Len(s) /\ s[i] \in Whitespace THEN SkipWs(s, i + 1) ELSE i

\* The characters of a string literal from position i (after the opening
\* quote) to its closing quote; a raw control character is an error.
RECURSIVE ScanString(_, _, _)
ScanString(s, i, acc) ==
    IF i > Len(s) \/ s[i] = "\n" THEN ParseFail
    ELSE IF s[i] = "\"" THEN ParseOk(PyStr(acc), i + 1)
    ELSE IF s[i] = "\\"
    THEN IF i + 1 > Len(s) THEN ParseFail
         ELSE IF s[i + 1] \in {"\"", "\\"}
         THEN ScanString(s, i + 2, Append(acc, s[i + 1]))
         ELSE IF s[i + 1] = "n" THEN ScanString(s, i + 2, Append(acc, "\n"))
         ELSE ParseFail
    ELSE ScanString(s, i + 1, Append(acc, s[i]))

DigitValue(c) == CHOOSE d \in 0..9 : Digits[d + 1] = c

DigitChars == {Digits[d] : d \in 1..10}

RECURSIVE ScanDigits(_, _, _)
ScanDigits(s, i, acc) ==
    IF i <= Len(s) /\ s[i] \in DigitChars
    THEN ScanDigits(s, i + 1, 10 * acc + DigitValue(s[i]))
    ELSE ParseOk(PyInt(acc), i)

ParseNumber(s, i) ==
    IF i <= Len(s) /\ s[i] = "-"
    THEN IF i + 1 <= Len(s) /\ s[i + 1] \in DigitChars
         THEN LET r == ScanDigits(s, i + 1, 0) IN ParseOk(PyInt(-r.v.n), r.i)
         ELSE ParseFail
    ELSE IF i <= Len(s) /\ s[i] \in DigitChars THEN ScanDigits(s, i, 0)
    ELSE ParseFail

ParseWord(s, i, w, v) ==
    IF i + Len(w) - 1 <= Len(s) /\ SubSeq(s, i, i + Len(w) - 1) = w
    THEN ParseOk(v, i + Len(w)) ELSE ParseFail

RECURSIVE ParseValue(_, _), ParseMembers(_, _, _)
\* The members of an object from position i, acc the items read so far.
ParseMembers(s, i, acc) ==
    LET ki == SkipWs(s, i)
    IN  IF ki > Len(s) \/ s[ki] # "\"" THEN ParseFail
        ELSE LET k == ScanString(s, ki + 1, <<>>)
                 ci == SkipWs(s, k.i)
             IN  IF ~k.ok \/ ci > Len(s) \/ s[ci] # ":" THEN ParseFail
                 ELSE LET v == ParseValue(s, SkipWs(s, ci + 1))
                          ni == SkipWs(s, v.i)
                          items == Append(acc, <<k.v, v.v>>)
                      IN  IF ~v.ok \/ ni > Len(s) THEN ParseFail
                          ELSE IF s[ni] = "}"
                          THEN ParseOk(PyDict(items), ni + 1)
                          ELSE IF s[ni] = ","
                          THEN ParseMembers(s, ni + 1, items)
                          ELSE ParseFail

ParseValue(s, i) ==
    IF i > Len(s) THEN ParseFail
    ELSE CASE s[i] = "\"" -> ScanString(s, i + 1, <<>>)
           [] s[i] = "{" ->
                LET j == SkipWs(s, i + 1)
                IN  IF j <= Len(s) /\ s[j] = "}" THEN ParseOk(PyDict(<<>>), j + 1)
                    ELSE ParseMembers(s, i + 1, <<>>)
           [] s[i] = "t" -> ParseWord(s, i, <<"t", "r", "u", "e">>, PyBool(TRUE))
           [] s[i] = "f" ->
                ParseWord(s, i, <<"f", "a", "l", "s", "e">>, PyBool(FALSE))
           [] s[i] = "n" -> ParseWord(s, i, <<"n", "u", "l", "l">>, PyNone)
           [] OTHER -> ParseNumber(s, i)

\* json.loads(s): the value, when s is one JSON document and nothing else.
JsonLoads(s) ==
    LET r == ParseValue(s, SkipWs(s, 1))
    IN  IF r.ok /\ SkipWs(s, r.i) = Len(s) + 1 THEN r ELSE ParseFail

(***************************************************************************)
(* WasmRunner: command construction (runners.py).                          *)
(***************************************************************************)
CLI_TOOL ==
    <<"w", "a", "s", "m", "t", "i", "m", "e">>

CLI_FLAGS == << <<"-", "S">>, <<"h", "t", "t", "p">> >>

\* 1024 * 1024 in the source; the model works at the scale of MaxOutput.
MAX_OUTPUT_SIZE == MaxOutput

TRUNCATION_MARKER ==
    <<".", ".", ".", " ", "(", "t", "r", "u", "n", "c", "a", "t", "e", "d", ")">>

SUCCESS_NO_OUTPUT ==
    <<"S", "u", "c", "c", "e", "s", "s", " ", "(", "n", "o", " ", "o", "u", "t", "p", "u", "t", ")">>

UNKNOWN_ERROR ==
    <<"U", "n", "k", "n", "o", "w", "n", " ", "e", "r", "r", "o", "r">>

EXECUTION_FAILED ==
    <<"E", "x", "e", "c", "u", "t", "i", "o", "n", " ", "f", "a", "i", "l", "e", "d", ":", " ">>

TIMED_OUT_AFTER ==
    <<"E", "x", "e", "c", "u", "t", "i", "o", "n", " ", "t", "i", "m", "e", "d", " ", "o", "u", "t", " ", "a", "f", "t", "e", "r", " ">>

SYSTEM_ERROR ==
    <<"S", "y", "s", "t", "e", "m", " ", "e", "r", "r", "o", "r", ":", " ">>

UNEXPECTED_ERROR ==
    <<"U", "n", "e", "x", "p", "e", "c", "t", "e", "d", " ", "e", "r", "r", "o", "r", ":", " ">>

EXPR_APP ==
    <<"c", "a", "l", "l", "(", "{", "a", "p", "p", "l", "i", "c", "a", "t", "i", "o", "n", "-", "i", "d", ":", " ", "\"">>

EXPR_ACT ==
    <<"\"", ",", " ", "a", "c", "t", "i", "o", "n", "-", "i", "d", ":", " ", "\"">>

EXPR_PAYLOAD ==
    <<"\"", ",", " ", "p", "a", "y", "l", "o", "a", "d", ":", " ", "{", "i", "n", "p", "u", "t", ":", " ">>

EXPR_END ==
    <<"}", "}", ")">>

INPUT_KEY == PyStr(<<"i", "n", "p", "u", "t">>)

\* d.get(key, default)
RECURSIVE DictGet(_, _, _)
DictGet(kv, key, default) ==
    IF kv = <<>> THEN default
    ELSE IF Head(kv)[1] = key THEN Head(kv)[2]
    ELSE DictGet(Tail(kv), key, default)

\* config.payload.get("input", {})
PayloadInput(cfg) == DictGet(cfg.payload.kv, INPUT_KEY, PyDict(<<>>))

\* Faulty variant of BuildInvokeExpression: the input is pasted unencoded.
BuildInvokeExpressionConcat(cfg) ==
    EXPR_APP \o cfg.application_id.s \o EXPR_ACT \o cfg.action_id.s
    \o EXPR_PAYLOAD
    \o (IF PayloadInput(cfg).t = "str"
        THEN JsonStringUnescaped(PayloadInput(cfg).s)
        ELSE JsonDumps(PayloadInput(cfg)))
    \o EXPR_END

BuildInvokeExpression(cfg) ==
    EXPR_APP \o cfg.application_id.s \o EXPR_ACT \o cfg.action_id.s
    \o EXPR_PAYLOAD \o JsonDumps(PayloadInput(cfg)) \o EXPR_END

Cwd ==
    <<"/", "w", "o", "r", "k">>

\* Path(p).resolve(): a relative path is taken from the working directory.
Resolve(p) == IF p # <<>> /\ Head(p) = "/" THEN p ELSE Cwd \o <<"/">> \o p

\* Path(p).exists(), files the set of the absolute paths that exist.
PathExists(p, files) == Resolve(p) \in files

NOT_SERIALIZABLE ==
    <<"O", "b", "j", "e", "c", "t", " ", "o", "f", " ", "t", "y", "p", "e", " ", "s", "e", "t", " ", "i", "s", " ", "n", "o", "t", " ", "J", "S", "O", "N", " ", "s", "e", "r", "i", "a", "l", "i", "z", "a", "b", "l", "e">>

\* _build_command: the argument vector, or the exception raised instead.
BuildCommand(cfg, files) ==
    IF ~PathExists(cfg.wasm_file, files)
    THEN [err |-> ConfigurationError(MSG_WASM_NOT_FOUND \o cfg.wasm_file),
          cmd |-> <<>>]
    ELSE IF ~JsonSerializable(PayloadInput(cfg))
    THEN [err |-> Raise("TypeError", NOT_SERIALIZABLE), cmd |-> <<>>]
    ELSE [err |-> NoError,
          cmd |-> <<CLI_TOOL, <<"r", "u", "n">>,
                    <<"-", "-", "i", "n", "v", "o", "k", "e">>,
                    BuildInvokeExpression(cfg)>>
                  \o CLI_FLAGS \o <<Resolve(cfg.wasm_file)>>]

(***************************************************************************)
(* ExecutionResult (models.py) and what a call hands to its caller.        *)
(***************************************************************************)
ExecutionResult(success, output, exit_code, execution_time, error_type) ==
    [success |-> success, output |-> output, exit_code |-> exit_code,
     execution_time |-> execution_time, error_type |-> error_type]

NoResult == ExecutionResult(FALSE, <<>>, PyNone, PyNone, "None")

\* kind: "none" while a call is running, "config" for a returned config,
\* "result" for a returned ExecutionResult, "tuple" for run_single's
\* (success, output), "raise" for an exception that reaches the caller.
NoOutcome ==
    [kind |-> "none", exc |-> "none", msg |-> <<>>, result |-> NoResult,
     value |-> <<>>]

Returned(result) ==
    [kind |-> "result", exc |-> "none", msg |-> <<>>, result |-> result,
     value |-> <<>>]

Raised(err) ==
    [kind |-> "raise", exc |-> err.exc, msg |-> err.msg, result |-> NoResult,
     value |-> <<>>]

ReturnedConfig ==
    [kind |-> "config", exc |-> "none", msg |-> <<>>, result |-> NoResult,
     value |-> <<>>]

(***************************************************************************)
(* WasmRunner.execute_component: classification of the outcome.            *)
(***************************************************************************)
\* f"{config.timeout}"
FormatTimeout(timeout) ==
    IF timeout.t = "bool"
    THEN (IF timeout.n = 1 THEN <<"T", "r", "u", "e">>
          ELSE <<"F", "a", "l", "s", "e">>)
    ELSE IntToStr(timeout.n)

\* Faulty variant of CapturedOutput: the size of stdout is not limited.
CapturedOutputUnlimited(stdout) == Strip(stdout)

\* Lines 179-183: stdout, cut at the size limit or stripped.
CapturedOutput(stdout) ==
    IF Len(stdout) > MAX_OUTPUT_SIZE
    THEN SubSeq(stdout, 1, MAX_OUTPUT_SIZE) \o TRUNCATION_MARKER
    ELSE Strip(stdout)

\* Faulty variant of ClassifyExit: stdout decides success, not the exit code.
ClassifyExitByOutput(returncode, stdout, stderr, execution_time) ==
    IF stderr = <<>>
    THEN ExecutionResult(TRUE,
             IF CapturedOutput(stdout) # <<>> THEN CapturedOutput(stdout)
             ELSE SUCCESS_NO_OUTPUT,
             PyInt(returncode), PyFloat(execution_time), "None")
    ELSE ExecutionResult(FALSE, EXECUTION_FAILED \o Strip(stderr),
             PyInt(returncode), PyFloat(execution_time), "execution_failure")

\* Lines 185-218: the result for a child that exited with returncode.
ClassifyExit(returncode, stdout, stderr, execution_time) ==
    IF returncode = 0
    THEN ExecutionResult(TRUE,
             IF CapturedOutput(stdout) # <<>> THEN CapturedOutput(stdout)
             ELSE SUCCESS_NO_OUTPUT,
             PyInt(returncode), PyFloat(execution_time), "None")
    ELSE ExecutionResult(FALSE,
             EXECUTION_FAILED
             \o (IF stderr # <<>> THEN Strip(stderr) ELSE UNKNOWN_ERROR),
             PyInt(returncode), PyFloat(execution_time), "execution_failure")

\* Faulty variant of HandleException: every exception becomes a result.
HandleExceptionSwallow(err, cfg, execution_time) ==
    IF err.exc = "TimeoutExpired"
    THEN Returned(ExecutionResult(FALSE,
             TIMED_OUT_AFTER \o FormatTimeout(cfg.timeout) \o <<"s">>,
             PyNone, PyFloat(execution_time), "timeout"))
    ELSE Returned(ExecutionResult(FALSE, SYSTEM_ERROR \o err.msg,
             PyNone, PyFloat(execution_time), "system_error"))

\* Faulty variant of HandleException: the timeout result carries the
\* exit code of the killed child.
HandleExceptionExitCode(err, cfg, execution_time) ==
    IF err.exc = "TimeoutExpired"
    THEN Returned(ExecutionResult(FALSE,
             TIMED_OUT_AFTER \o FormatTimeout(cfg.timeout) \o <<"s">>,
             PyInt(-9), PyFloat(execution_time), "timeout"))
    ELSE IF IsOSError(err.exc)
    THEN Returned(ExecutionResult(FALSE, SYSTEM_ERROR \o err.msg,
             PyNone, PyFloat(execution_time), "system_error"))
    ELSE IF err.exc \in ExceptionClasses
    THEN Raised(Raise("ExecutionError", UNEXPECTED_ERROR \o err.msg))
    ELSE Raised(err)

\* Lines 220-259: the except clauses, tried in order.  An exception that
\* does not derive from Exception passes through all of them.
HandleException(err, cfg, execution_time) ==
    IF err.exc = "TimeoutExpired"
    THEN Returned(ExecutionResult(FALSE,
             TIMED_OUT_AFTER \o FormatTimeout(cfg.timeout) \o <<"s">>,
             PyNone, PyFloat(execution_time), "timeout"))
    ELSE IF IsOSError(err.exc)
    THEN Returned(ExecutionResult(FALSE, SYSTEM_ERROR \o err.msg,
             PyNone, PyFloat(execution_time), "system_error"))
    ELSE IF err.exc \in ExceptionClasses
    THEN Raised(Raise("ExecutionError", UNEXPECTED_ERROR \o err.msg))
    ELSE Raised(err)

(***************************************************************************)
(* BettyBlocksRunner (runners.py).                                         *)
(***************************************************************************)
\* Faulty variant of Sanitize: entries with a None value are kept.
SanitizeKeepNone(input) ==
    PyDict(SelectSeq(input.kv, LAMBDA e : e[1].t = "str"))

\* Lines 351-353: drop the entries with a None value or a key that is no str.
Sanitize(input) ==
    PyDict(SelectSeq(input.kv,
                     LAMBDA e : e[2].t # "NoneType" /\ e[1].t = "str"))

\* Faulty variant of CreateConfig: the config is built without validation.
CreateConfigUnvalidated(rnr, application_id, action_id, input_data) ==
    [err |-> NoError,
     config |-> ComponentConfig(application_id, action_id,
                    PyDict(<< <<INPUT_KEY, PyStr(<<"{", "}">>)>> >>),
                    rnr.wasm_file, rnr.timeout)]

\* create_config: the config, or the exception raised instead.  The
\* argument json.dumps(sanitized_input) is evaluated before ComponentConfig
\* is constructed.
CreateConfig(rnr, application_id, action_id, input_data) ==
    LET input == IF input_data.t = "NoneType" THEN PyDict(<<>>) ELSE input_data
    IN  IF input.t # "dict"
        THEN [err |-> ConfigurationError(MSG_INPUT_DICT), config |-> NoConfig]
        ELSE IF ~JsonSerializable(Sanitize(input))
        THEN [err |-> Raise("TypeError", NOT_SERIALIZABLE),
              config |-> NoConfig]
        ELSE LET payload ==
                     PyDict(<< <<INPUT_KEY,
                                 PyStr(JsonDumps(Sanitize(input)))>> >>)
                 err == PostInit(application_id, action_id, payload,
                                 rnr.timeout)
             IN  IF err # NoError THEN [err |-> err, config |-> NoConfig]
                 ELSE [err |-> NoError,
                       config |-> ComponentConfig(application_id, action_id,
                                      payload, rnr.wasm_file, rnr.timeout)]

\* run_single's handlers (lines 388-393) and its return value.
RunSingleOutcome(o) ==
    IF o.kind = "result"
    THEN [kind |-> "tuple", exc |-> "none", msg |-> <<>>,
          result |-> o.result,
          value |-> <<o.result.success, o.result.output>>]
    ELSE IF o.exc \in {"ConfigurationError", "ExecutionError"} THEN o
    ELSE IF o.exc \in ExceptionClasses
    THEN Raised(Raise("ExecutionError", UNEXPECTED_ERROR \o o.msg))
    ELSE o

\* What the caller of entry point theApi gets from execute_component's o.
Surface(theApi, o) ==
    IF theApi \in {"run_single", "__call__", "main"} THEN RunSingleOutcome(o)
    ELSE o

(***************************************************************************)
(* Runner construction (runners.py, and its copy in main.py).              *)
(***************************************************************************)
MSG_CLI_NOT_FOUND ==
    <<"w", "a", "s", "m", "t", "i", "m", "e", " ", "C", "L", "I", " ", "n", "o", "t", " ", "f", "o", "u", "n", "d", ".", " ", "I", "n", "s", "t", "a", "l", "l", " ", "f", "r", "o", "m", ":", " ", "h", "t", "t", "p", "s", ":", "/", "/", "d", "o", "c", "s", ".", "w", "a", "s", "m", "t", "i", "m", "e", ".", "d", "e", "v", "/", "c", "l", "i", "-", "i", "n", "s", "t", "a", "l", "l", ".", "h", "t", "m", "l">>

MSG_CLI_NOT_FOUND_MAIN ==
    <<"w", "a", "s", "m", "t", "i", "m", "e", " ", "C", "L", "I", " ", "n", "o", "t", " ", "f", "o", "u", "n", "d", ".", " ", "I", "n", "s", "t", "a", "l", "l", " ", "w", "i", "t", "h", ":", " ", "b", "r", "e", "w", " ", "i", "n", "s", "t", "a", "l", "l", " ", "w", "a", "s", "m", "t", "i", "m", "e">>

MSG_INVALID_LOG_LEVEL ==
    <<"I", "n", "v", "a", "l", "i", "d", " ", "l", "o", "g", " ", "l", "e", "v", "e", "l", ":", " ">>

MSG_IDS_NOT_SET ==
    <<"a", "p", "p", "l", "i", "c", "a", "t", "i", "o", "n", "_", "i", "d", " ", "a", "n", "d", " ", "a", "c", "t", "i", "o", "n", "_", "i", "d", " ", "m", "u", "s", "t", " ", "b", "e", " ", "s", "e", "t", " ", "i", "n", " ", "c", "o", "n", "s", "t", "r", "u", "c", "t", "o", "r", " ", "t", "o", " ", "u", "s", "e", " ", "c", "a", "l", "l", "a", "b", "l", "e", " ", "i", "n", "t", "e", "r", "f", "a", "c", "e">>

LowerCase ==
    <<"a", "b", "c", "d", "e", "f", "g", "h", "i", "j", "k", "l", "m", "n", "o", "p", "q", "r", "s", "t", "u", "v", "w", "x", "y", "z">>

UpperCase ==
    <<"A", "B", "C", "D", "E", "F", "G", "H", "I", "J", "K", "L", "M", "N", "O", "P", "Q", "R", "S", "T", "U", "V", "W", "X", "Y", "Z">>

\* s.upper()
Upper(s) ==
    [i \in 1..Len(s) |->
        IF \E k \in 1..Len(LowerCase) : LowerCase[k] = s[i]
        THEN UpperCase[CHOOSE k \in 1..Len(LowerCase) : LowerCase[k] = s[i]]
        ELSE s[i]]

\* The names n for which getattr(logging, n) is a logging level.
LoggingLevels ==
    {<<"D", "E", "B", "U", "G">>, <<"I", "N", "F", "O">>,
     <<"W", "A", "R", "N", "I", "N", "G">>, <<"E", "R", "R", "O", "R">>,
     <<"C", "R", "I", "T", "I", "C", "A", "L">>}

\* _setup_logging: the level name the logger is configured with, or the
\* ConfigurationError for a name the logging module does not have.
SetupLogging(log_level) ==
    IF Upper(log_level) \in LoggingLevels
    THEN [err |-> NoError, level |-> Upper(log_level)]
    ELSE [err |-> ConfigurationError(MSG_INVALID_LOG_LEVEL \o log_level),
          level |-> <<>>]

\* Faulty variant of ValidateEnvironment: the search path is not consulted.
ValidateEnvironmentSkipped(executables, not_found) == NoError

\* _validate_environment: shutil.which(CLI_TOOL) over the executables on
\* the search path; not_found is the message of the copy that is running.
ValidateEnvironment(executables, not_found) ==
    IF CLI_TOOL \in executables THEN NoError
    ELSE Raise("WasmEnvironmentError", not_found)

\* WasmRunner.__init__: _setup_logging, then _validate_environment.
WasmRunnerInit(log_level, executables, not_found) ==
    LET logging == SetupLogging(log_level)
    IN  IF logging.err # NoError THEN logging
        ELSE [err |-> ValidateEnvironment(executables, not_found),
              level |-> logging.level]

(***************************************************************************)
(* The standalone copy main.py: its builder and its entry point main().    *)
(***************************************************************************)
MainWasm ==
    <<"a", "p", "p", ".", "w", "a", "s", "m">>

\* main.py line 164: config.payload.get("input", "{}"), the default being
\* the str "{}".
PayloadInputMain(cfg) ==
    DictGet(cfg.payload.kv, INPUT_KEY, PyStr(<<"{", "}">>))

\* main.py's copy of _build_invoke_expression.
BuildInvokeExpressionMain(cfg) ==
    EXPR_APP \o cfg.application_id.s \o EXPR_ACT \o cfg.action_id.s
    \o EXPR_PAYLOAD \o JsonDumps(PayloadInputMain(cfg)) \o EXPR_END

\* main.py's copy of _build_command.
BuildCommandMain(cfg, files) ==
    IF ~PathExists(cfg.wasm_file, files)
    THEN [err |-> ConfigurationError(MSG_WASM_NOT_FOUND \o cfg.wasm_file),
          cmd |-> <<>>]
    ELSE IF ~JsonSerializable(PayloadInputMain(cfg))
    THEN [err |-> Raise("TypeError", NOT_SERIALIZABLE), cmd |-> <<>>]
    ELSE [err |-> NoError,
          cmd |-> <<CLI_TOOL, <<"r", "u", "n">>,
                    <<"-", "-", "i", "n", "v", "o", "k", "e">>,
                    BuildInvokeExpressionMain(cfg)>>
                  \o CLI_FLAGS \o <<Resolve(cfg.wasm_file)>>]

\* Faulty variant of MainExit: an unsuccessful result exits with 0.
MainExitIgnoresResult(o) ==
    IF o.kind = "tuple" THEN PyInt(0)
    ELSE IF o.exc = "ConfigurationError" THEN PyInt(2)
    ELSE IF o.exc = "WasmEnvironmentError" THEN PyInt(3)
    ELSE IF o.exc = "ExecutionError" THEN PyInt(4)
    ELSE IF o.exc = "KeyboardInterrupt" THEN PyInt(130)
    ELSE PyInt(1)

\* main(), lines 488-509: the exit status of the process for what the
\* try block ended with: a tuple (success, result) of runner({}), or an
\* exception.  sys.exit(1) raises SystemExit, which none of the handlers
\* catches; a normal return of main() ends the process with status 0.
MainExit(o) ==
    IF o.kind = "tuple"
    THEN IF o.value[1] THEN PyInt(0) ELSE PyInt(1)
    ELSE IF o.exc = "ConfigurationError" THEN PyInt(2)
    ELSE IF o.exc = "WasmEnvironmentError" THEN PyInt(3)
    ELSE IF o.exc = "ExecutionError" THEN PyInt(4)
    ELSE IF o.exc = "KeyboardInterrupt" THEN PyInt(130)
    ELSE PyInt(1)

\* The exit status after entry point theApi ended with o: only main()
\* ends the process.
SysExit(theApi, o) == IF theApi = "main" THEN MainExit(o) ELSE PyNone

(***************************************************************************)
(* The log of one execute_component call (_execution_context).             *)
(***************************************************************************)
LOG_STARTING == "Starting component execution"

LOG_COMPLETED == "Execution completed"

\* Faulty variant of ExecutionContextExit: the event is logged only when
\* the call returns.
ExecutionContextExitOnReturn(events, o) ==
    IF o.kind = "raise" THEN events ELSE Append(events, LOG_COMPLETED)

\* Lines 137-145: the finally block runs however the with block ended.
ExecutionContextExit(events, o) == Append(events, LOG_COMPLETED)

(***************************************************************************)
(* The inputs of the calls and the answers of the environment.             *)
(***************************************************************************)
DocAppId ==
    <<"b", "e", "3", "c", "7", "d", "e", "c", "1", "2", "6", "5", "4", "7", "c", "5", "b", "d", "b", "1", "8", "7", "0", "c", "a", "9", "d", "8", "6", "7", "7", "8">>

DocActionId ==
    <<"7", "c", "3", "3", "a", "2", "b", "6", "3", "5", "5", "5", "4", "5", "3", "3", "8", "b", "5", "3", "6", "a", "4", "8", "6", "3", "4", "8", "6", "d", "9", "7">>

DefaultWasm ==
    <<"a", "c", "t", "i", "o", "n", "s", ".", "w", "a", "s", "m">>

AbsWasm ==
    <<"/", "o", "p", "t", "/", "a", "p", "p", ".", "w", "a", "s", "m">>

ENOENT ==
    <<"[", "E", "r", "r", "n", "o", " ", "2", "]", " ", "N", "o", " ", "s", "u", "c", "h", " ", "f", "i", "l", "e", " ", "o", "r", " ", "d", "i", "r", "e", "c", "t", "o", "r", "y", ":", " ", "'", "w", "a", "s", "m", "t", "i", "m", "e", "'">>

EACCES ==
    <<"[", "E", "r", "r", "n", "o", " ", "1", "3", "]", " ", "P", "e", "r", "m", "i", "s", "s", "i", "o", "n", " ", "d", "e", "n", "i", "e", "d", ":", " ", "'", "w", "a", "s", "m", "t", "i", "m", "e", "'">>

DECODE_ERR ==
    <<"'", "u", "t", "f", "-", "8", "'", " ", "c", "o", "d", "e", "c", " ", "c", "a", "n", "'", "t", " ", "d", "e", "c", "o", "d", "e", " ", "b", "y", "t", "e", " ", "0", "x", "f", "f", " ", "i", "n", " ", "p", "o", "s", "i", "t", "i", "o", "n", " ", "0", ":", " ", "i", "n", "v", "a", "l", "i", "d", " ", "s", "t", "a", "r", "t", " ", "b", "y", "t", "e">>

INJ ==
    <<"\"", ")", ";", " ", "r", "m", " ", "-", "r", "f", " ", "/", ";", "\"">>

AppIds ==
    {PyStr(DocAppId), PyStr(Append(DocAppId, "\n")), PyStr(<<>>),
     PyStr(Rep("a", ID_LENGTH - 1)), PyStr(Rep("a", ID_LENGTH + 1)),
     PyStr(Append(Rep("a", ID_LENGTH - 1), "A")),
     PyStr(Append(Rep("a", ID_LENGTH - 1), "g")), PyInt(7)}

ActionIds ==
    {PyStr(DocActionId), PyStr(Append(DocActionId, "\n")), PyStr(<<>>),
     PyStr(<<"\n">> \o Rep("0", ID_LENGTH - 1)),
     PyStr(Rep("0", ID_LENGTH) \o <<"\n", "\n">>), PyNone}

Timeouts ==
    {PyInt(1), PyInt(TIMEOUT_MAX), PyBool(TRUE), PyInt(0), PyInt(-1),
     PyInt(TIMEOUT_MAX + 1), PyFloat(30), PyBool(FALSE), PyNone}

\* The timeout a BettyBlocksRunner is constructed with: its default, and 0.
RunnerTimeouts == {PyInt(30), PyInt(0)}

\* The arguments a BettyBlocksRunner is constructed with: without IDs, with
\* both, and with one of them.
RunnerArgs ==
    {[application_id |-> PyNone, action_id |-> PyNone,
      wasm_file |-> DefaultWasm, timeout |-> t] : t \in RunnerTimeouts}
    \cup {[application_id |-> PyStr(DocAppId), action_id |-> b,
            wasm_file |-> DefaultWasm, timeout |-> PyInt(30)] :
              b \in {PyStr(DocActionId), PyNone}}

\* log_level: a level name, a level name in lower case, no level name.
LogLevels ==
    {<<"I", "N", "F", "O">>, <<"i", "n", "f", "o">>,
     <<"B", "O", "G", "U", "S">>}

\* What shutil.which can find: nothing, or the runtime.
SearchPaths == {{}, {CLI_TOOL}}

MSG_FROZEN ==
    <<"c", "a", "n", "n", "o", "t", " ", "a", "s", "s", "i", "g", "n", " ", "t", "o", " ", "f", "i", "e", "l", "d", " ", "'", "t", "i", "m", "e", "o", "u", "t", "'">>

KeyA == PyStr(<<"a">>)
KeyB == PyStr(<<"b">>)

Payloads ==
    {PyDict(<<>>),
     PyDict(<< <<INPUT_KEY, PyStr(INJ)>> >>),
     PyDict(<< <<INPUT_KEY, PyDict(<< <<KeyA, PyStr(INJ)>> >>)>> >>),
     PyDict(<< <<INPUT_KEY, PySet>> >>),
     PyList, PyNone}

InputData ==
    {PyNone,
     PyDict(<< <<KeyA, PyInt(1)>>, <<KeyB, PyNone>> >>),
     PyDict(<< <<PyInt(1), PyStr(<<"x">>)>>, <<KeyB, PyStr(INJ)>> >>),
     PyDict(<< <<KeyA, PyDict(<< <<KeyB, PyNone>> >>)>>,
               <<PyNone, PyBool(TRUE)>>, <<KeyB, PyInt(-12)>> >>),
     PyDict(<< <<KeyA, PySet>> >>),
     PyList}

WasmFiles == {DefaultWasm, AbsWasm}

Files == {Resolve(w) : w \in WasmFiles}

\* What starting the child process does: it starts, or Popen raises.
Launches == {"ok", "FileNotFoundError", "PermissionError"}

LaunchError(launch) ==
    IF launch = "FileNotFoundError" THEN Raise(launch, ENOENT)
    ELSE Raise(launch, EACCES)

ExitStatus(returncode, stdout, stderr) ==
    [returncode |-> returncode, stdout |-> stdout, stderr |-> stderr]

Stream(l, k, r) == l \o Rep("x", k) \o r

\* The streams of the child: empty, padded with white space, white space
\* only, exactly at the size limit, and beyond it.
Stdouts ==
    {<<>>, Stream(<<" ">>, 2, <<"\n">>), <<"\n">>,
     Stream(<<>>, MAX_OUTPUT_SIZE, <<>>),
     Stream(<<" ">>, MAX_OUTPUT_SIZE, <<>>),
     Stream(<<>>, MAX_OUTPUT_SIZE + MaxExcess, <<"\n">>)}

Stderrs ==
    {<<>>, Stream(<<>>, 4, <<"\n">>), <<"\n">>,
     Stream(<<>>, MAX_OUTPUT_SIZE + MaxExcess, <<>>)}

\* How a child may end: with exit code 0 and any stdout, with exit code 1
\* and any stderr, or killed by a signal.
ExitStatuses ==
    {ExitStatus(0, o, e) : o \in Stdouts, e \in {<<>>, Stream(<<>>, 4, <<"\n">>)}}
    \cup {ExitStatus(1, o, e) :
             o \in {<<>>, Stream(<<>>, MAX_OUTPUT_SIZE + MaxExcess, <<"\n">>)},
             e \in Stderrs}
    \cup {ExitStatus(-9, <<>>, e) : e \in {<<>>, <<"\n">>}}

(***************************************************************************)
(* The state machine.  A process is either a caller of the library        *)
(* (api = "none" at first) or the script main.py (api = "main").  The      *)
(* library caller constructs one runner; with a WasmRunner it constructs   *)
(* one ComponentConfig, with a BettyBlocksRunner it makes one create_config *)
(* or run_single or __call__ call; then it calls execute_component on the  *)
(* config any number of times.  No state is kept from one call to the      *)
(* next, so a second construction adds no behaviour.  A caller whose       *)
(* runner construction raised has no runner to go on with.                 *)
(***************************************************************************)
NoArgs == [application_id |-> PyNone, action_id |-> PyNone,
           payload |-> PyNone, wasm_file |-> <<>>, timeout |-> PyNone]

Args(application_id, action_id, payload, wasm_file, timeout) ==
    [application_id |-> application_id, action_id |-> action_id,
     payload |-> payload, wasm_file |-> wasm_file, timeout |-> timeout]

NoRunner == [set |-> FALSE, application_id |-> PyNone, action_id |-> PyNone,
             wasm_file |-> <<>>, timeout |-> PyNone]

BettyBlocksRunner(application_id, action_id, wasm_file, timeout) ==
    [set |-> TRUE, application_id |-> application_id,
     action_id |-> action_id, wasm_file |-> wasm_file, timeout |-> timeout]

\* cls: the runner class constructed ("none" before); level: the logging
\* level configured; exc, msg: the exception the constructor raised.
NoCtor == [cls |-> "none", level |-> <<>>, exc |-> "none", msg |-> <<>>]

Constructed(cls, init) ==
    [cls |-> cls, level |-> init.level, exc |-> init.err.exc,
     msg |-> init.err.msg]

\* A WasmRunner object exists (by itself or inside a BettyBlocksRunner).
HasWasmRunner == ctor.cls # "none" /\ ctor.exc = "none"

\* state: "none", "running", "exited" (by itself) or "killed" (by
\* subprocess.run); reaped: the parent has waited for it.
NoChild == [state |-> "none", reaped |-> FALSE, returncode |-> PyNone,
            stdout |-> <<>>, stderr |-> <<>>]

RunningChild == [NoChild EXCEPT !.state = "running"]

\* time.time() - start_time
Elapsed == now - start_time

Init ==
    /\ path \in SearchPaths
    /\ api \in {"none", "main"}
    /\ fs \in IF api = "main" THEN {{}, {Resolve(MainWasm)}} ELSE {Files}
    /\ ctor = NoCtor
    /\ runner = NoRunner
    /\ args = NoArgs
    /\ config = NoConfig
    /\ pc = "ready"
    /\ child = NoChild
    /\ spawned = 0
    /\ cmd = <<>>
    /\ now = 0
    /\ start_time = 0
    /\ raised = NoError
    /\ outcome = NoOutcome
    /\ log = <<>>
    /\ sys_exit = PyNone

\* WasmRunner(log_level)
NewWasmRunner(log_level) ==
    /\ pc = "ready"
    /\ api = "none"
    /\ ctor.cls = "none"
    /\ ctor' = Constructed("WasmRunner",
                           WasmRunnerInit(log_level, path, MSG_CLI_NOT_FOUND))
    /\ UNCHANGED <<runner, api, args, config, pc, child, spawned, cmd, now,
                   start_time, raised, outcome, fs, path, log, sys_exit>>

\* BettyBlocksRunner(application_id, action_id, wasm_file, timeout,
\* log_level): the WasmRunner is constructed first (line 296); the fields
\* are stored as given, nothing is validated before create_config.
NewBettyBlocksRunner(application_id, action_id, wasm_file, timeout, log_level) ==
    LET init == WasmRunnerInit(log_level, path, MSG_CLI_NOT_FOUND)
    IN  /\ pc = "ready"
        /\ api = "none"
        /\ ctor.cls = "none"
        /\ ctor' = Constructed("BettyBlocksRunner", init)
        /\ runner' = IF init.err = NoError
                     THEN BettyBlocksRunner(application_id, action_id,
                                            wasm_file, timeout)
                     ELSE NoRunner
        /\ UNCHANGED <<api, args, config, pc, child, spawned, cmd, now,
                       start_time, raised, outcome, fs, path, log, sys_exit>>

\* ComponentConfig(...): the dataclass constructor with __post_init__.
NewComponentConfig(application_id, action_id, payload, wasm_file, timeout) ==
    LET err == PostInit(application_id, action_id, payload, timeout)
    IN  /\ pc = "ready"
        /\ api = "none"
        /\ HasWasmRunner
        /\ ~runner.set
        /\ api' = "ComponentConfig"
        /\ args' = Args(application_id, action_id, payload, wasm_file, timeout)
        /\ config' = IF err = NoError
                     THEN ComponentConfig(application_id, action_id, payload,
                                          wasm_file, timeout)
                     ELSE NoConfig
        /\ outcome' = IF err = NoError THEN ReturnedConfig ELSE Raised(err)
        /\ child' = NoChild
        /\ spawned' = 0
        /\ cmd' = <<>>
        /\ UNCHANGED <<runner, pc, now, start_time, raised, fs, ctor, path,
                       log, sys_exit>>

\* An assignment to a field of the config (config.timeout = ...): the
\* dataclass is frozen, __setattr__ raises FrozenInstanceError.
SetAttr ==
    /\ pc = "ready"
    /\ outcome.kind = "config"
    /\ api' = "__setattr__"
    /\ outcome' = Raised(Raise("FrozenInstanceError", MSG_FROZEN))
    /\ UNCHANGED <<runner, args, config, pc, child, spawned, cmd, now,
                   start_time, raised, fs, ctor, path, log, sys_exit>>

\* The caller changes the dict it passed as payload to ComponentConfig:
\* the config's payload field refers to that same dict (config.py line 25
\* stores the reference), so both show the new contents p.
MutatePayload(p) ==
    /\ pc = "ready"
    /\ outcome.kind = "config"
    /\ api = "ComponentConfig"
    /\ p.t = "dict"
    /\ p # config.payload
    /\ config' = [config EXCEPT !.payload = p]
    /\ args' = [args EXCEPT !.payload = p]
    /\ UNCHANGED <<runner, api, pc, child, spawned, cmd, now, start_time,
                   raised, outcome, fs, ctor, path, log, sys_exit>>

\* BettyBlocksRunner.create_config(application_id, action_id, input_data)
CallCreateConfig(application_id, action_id, input_data) ==
    LET c == CreateConfig(runner, application_id, action_id, input_data)
    IN  /\ pc = "ready"
        /\ api = "none"
        /\ runner.set
        /\ api' = "create_config"
        /\ args' = Args(application_id, action_id, input_data,
                        runner.wasm_file, runner.timeout)
        /\ config' = c.config
        /\ outcome' = IF c.err = NoError THEN ReturnedConfig ELSE Raised(c.err)
        /\ child' = NoChild
        /\ spawned' = 0
        /\ cmd' = <<>>
        /\ UNCHANGED <<runner, pc, now, start_time, raised, fs, ctor, path,
                       log, sys_exit>>

\* execute_component from its entry to the point where subprocess.run has
\* started the child and waits for it (lines 159-174), or to its end when
\* no child is started.  t0 is the clock at entry.
BeginExecute(theApi, cfg, launch, t0) ==
    LET built == IF theApi = "main" THEN BuildCommandMain(cfg, fs)
                 ELSE BuildCommand(cfg, fs)
        err == IF built.err # NoError THEN built.err ELSE LaunchError(launch)
        o == HandleException(err, cfg, 0)
    IN  /\ now' = t0
        /\ start_time' = t0
        /\ cmd' = built.cmd
        /\ IF built.err # NoError \/ launch # "ok"
           THEN /\ pc' = "ready"
                /\ child' = NoChild
                /\ spawned' = 0
                /\ raised' = err
                /\ outcome' = Surface(theApi, o)
                /\ log' = ExecutionContextExit(<<LOG_STARTING>>, o)
                /\ sys_exit' = SysExit(theApi, Surface(theApi, o))
           ELSE /\ pc' = "waiting"
                /\ child' = RunningChild
                /\ spawned' = 1
                /\ raised' = NoError
                /\ outcome' = NoOutcome
                /\ log' = <<LOG_STARTING>>
                /\ sys_exit' = PyNone

\* WasmRunner.execute_component(config) on a config constructed before.
CallExecuteComponent(launch, t0) ==
    /\ pc = "ready"
    /\ config.set
    /\ api' = "execute_component"
    /\ BeginExecute("execute_component", config, launch, t0)
    /\ UNCHANGED <<runner, args, config, fs, ctor, path>>

\* The body of run_single (lines 383-393) for entry point theApi.
RunSingle(theApi, rnr, application_id, action_id, input_data, launch, t0) ==
    LET c == CreateConfig(rnr, application_id, action_id, input_data)
    IN  /\ args' = Args(application_id, action_id, input_data,
                        rnr.wasm_file, rnr.timeout)
        /\ config' = c.config
        /\ IF c.err # NoError
           THEN /\ outcome' = RunSingleOutcome(Raised(c.err))
                /\ sys_exit' = SysExit(theApi, RunSingleOutcome(Raised(c.err)))
                /\ child' = NoChild
                /\ spawned' = 0
                /\ cmd' = <<>>
                /\ log' = <<>>
                /\ UNCHANGED <<pc, now, start_time, raised>>
           ELSE BeginExecute(theApi, c.config, launch, t0)

\* BettyBlocksRunner.run_single(application_id, action_id, input_data)
CallRunSingle(application_id, action_id, input_data, launch, t0) ==
    /\ pc = "ready"
    /\ api = "none"
    /\ runner.set
    /\ api' = "run_single"
    /\ RunSingle("run_single", runner, application_id, action_id, input_data,
                 launch, t0)
    /\ UNCHANGED <<runner, fs, ctor, path>>

\* BettyBlocksRunner.__call__(input_data), lines 316-322.
CallCall(input_data, launch, t0) ==
    /\ pc = "ready"
    /\ api = "none"
    /\ runner.set
    /\ api' = "__call__"
    /\ IF runner.application_id = PyNone \/ runner.action_id = PyNone
       THEN /\ args' = Args(runner.application_id, runner.action_id,
                            input_data, runner.wasm_file, runner.timeout)
            /\ config' = NoConfig
            /\ outcome' = Raised(ConfigurationError(MSG_IDS_NOT_SET))
            /\ child' = NoChild
            /\ spawned' = 0
            /\ cmd' = <<>>
            /\ log' = <<>>
            /\ UNCHANGED <<pc, now, start_time, raised, sys_exit>>
       ELSE RunSingle("__call__", runner, runner.application_id,
                      runner.action_id, input_data, launch, t0)
    /\ UNCHANGED <<runner, fs, ctor, path>>

\* main() of main.py, lines 480-486: the runner is constructed with the
\* documented IDs and the defaults of main.py, then called with {}.
CallMain(launch, t0) ==
    LET init == WasmRunnerInit(<<"I", "N", "F", "O">>, path,
                               MSG_CLI_NOT_FOUND_MAIN)
        rnr == BettyBlocksRunner(PyStr(DocAppId), PyStr(DocActionId),
                                 MainWasm, PyInt(30))
    IN  /\ pc = "ready"
        /\ api = "main"
        /\ ctor.cls = "none"
        /\ ctor' = Constructed("BettyBlocksRunner", init)
        /\ IF init.err # NoError
           THEN /\ runner' = NoRunner
                /\ outcome' = Raised(init.err)
                /\ sys_exit' = MainExit(Raised(init.err))
                /\ UNCHANGED <<args, config, pc, child, spawned, cmd, now,
                               start_time, raised, log>>
           ELSE /\ runner' = rnr
                /\ RunSingle("main", rnr, rnr.application_id, rnr.action_id,
                             PyDict(<<>>), launch, t0)
        /\ UNCHANGED <<api, fs, path>>

\* Time passes while subprocess.run waits: by one unit (the first
\* MaxTicks units) or up to the deadline; the expiry may be noticed up
\* to MaxLag units late.
Tick(d) ==
    /\ pc = "waiting"
    /\ d >= 1
    /\ Elapsed + d <= config.timeout.n + MaxLag
    /\ Elapsed + d <= MaxTicks \/ Elapsed + d >= config.timeout.n
    /\ now' = now + d
    /\ UNCHANGED <<runner, api, args, config, pc, child, spawned, cmd,
                   start_time, raised, outcome, fs, ctor, path, log,
                   sys_exit>>

\* How subprocess.run ends: the child's final state ch, the exception err
\* raised inside the try block (NoError when run returned) and what
\* execute_component makes of it, o.
EndExecute(ch, err, o) ==
    /\ child' = ch
    /\ raised' = err
    /\ outcome' = Surface(api, o)
    /\ log' = ExecutionContextExit(log, o)
    /\ sys_exit' = SysExit(api, Surface(api, o))
    /\ pc' = "ready"
    /\ UNCHANGED <<runner, api, args, config, spawned, cmd, now, start_time,
                   fs, ctor, path>>

\* The child exits before the timeout; subprocess.run reaps it and returns
\* its exit code and streams (lines 176-218).
ChildExit(returncode, stdout, stderr) ==
    /\ pc = "waiting"
    /\ Elapsed < config.timeout.n
    /\ EndExecute([state |-> "exited", reaped |-> TRUE,
                   returncode |-> PyInt(returncode),
                   stdout |-> stdout, stderr |-> stderr],
                  NoError,
                  Returned(ClassifyExit(returncode, stdout, stderr, Elapsed)))

\* Faulty variant of KilledChild: the child is left running.
KilledChildLeftRunning == RunningChild

\* subprocess.run on expiry: process.kill(), process.wait(), raise.
KilledChild ==
    [NoChild EXCEPT !.state = "killed", !.reaped = TRUE,
                    !.returncode = PyInt(-9)]

\* Faulty variant of TimeoutExpired: the call starts a second child when
\* the first one ran out of time.
TimeoutExpiredRetry ==
    /\ pc = "waiting"
    /\ Elapsed >= config.timeout.n
    /\ spawned < 2
    /\ child' = RunningChild
    /\ spawned' = spawned + 1
    /\ start_time' = now
    /\ UNCHANGED <<runner, api, args, config, pc, cmd, now, raised, outcome,
                   fs, ctor, path, log, sys_exit>>

\* The timeout expires first: subprocess.run kills and reaps the child and
\* raises TimeoutExpired (lines 220-232).
TimeoutExpired ==
    /\ pc = "waiting"
    /\ Elapsed >= config.timeout.n
    /\ EndExecute(KilledChild, Raise("TimeoutExpired", <<>>),
                  HandleException(Raise("TimeoutExpired", <<>>), config,
                                  Elapsed))

\* The child's output is not valid UTF-8: with text=True communicate raises
\* UnicodeDecodeError; subprocess.run kills and reaps the child (252-259).
ChildOutputUndecodable ==
    /\ pc = "waiting"
    /\ Elapsed < config.timeout.n
    /\ EndExecute(KilledChild, Raise("UnicodeDecodeError", DECODE_ERR),
                  HandleException(Raise("UnicodeDecodeError", DECODE_ERR),
                                  config, Elapsed))

\* The user interrupts the process while subprocess.run waits, before the
\* deadline: KeyboardInterrupt is raised in communicate, subprocess.run
\* kills and reaps the child, and no except clause of execute_component
\* or run_single catches it.
Interrupt ==
    /\ pc = "waiting"
    /\ Elapsed < config.timeout.n
    /\ EndExecute(KilledChild, Raise("KeyboardInterrupt", <<>>),
                  HandleException(Raise("KeyboardInterrupt", <<>>), config,
                                  Elapsed))

\* The environment creates or removes the WASM file the next call will
\* name: after the config was constructed and before it is first executed,
\* or before run_single.
FsChange(file) ==
    /\ pc = "ready"
    /\ outcome.kind = "config" \/ (api = "none" /\ runner.set)
    /\ file = Resolve(IF config.set THEN config.wasm_file
                      ELSE runner.wasm_file)
    /\ fs' = IF file \in fs THEN fs \ {file} ELSE fs \cup {file}
    /\ UNCHANGED <<runner, api, args, config, pc, child, spawned, cmd, now,
                   start_time, raised, outcome, ctor, path, log, sys_exit>>

Next ==
    \/ \E l \in LogLevels : NewWasmRunner(l)
    \/ \E r \in RunnerArgs, l \in LogLevels :
          NewBettyBlocksRunner(r.application_id, r.action_id, r.wasm_file,
                               r.timeout, l)
    \/ \E a \in AppIds, b \in ActionIds, p \in Payloads, w \in WasmFiles,
          t \in Timeouts : NewComponentConfig(a, b, p, w, t)
    \/ SetAttr
    \/ \E p \in Payloads : MutatePayload(p)
    \/ \E a \in AppIds, b \in ActionIds, i \in InputData :
          CallCreateConfig(a, b, i)
    \/ \E l \in Launches, t0 \in 0..MaxStart : CallExecuteComponent(l, t0)
    \/ \E a \in AppIds, b \in ActionIds, i \in InputData, l \in Launches,
          t0 \in 0..MaxStart : CallRunSingle(a, b, i, l, t0)
    \/ \E i \in InputData, l \in Launches, t0 \in 0..MaxStart :
          CallCall(i, l, t0)
    \/ \E l \in Launches, t0 \in 0..MaxStart : CallMain(l, t0)
    \/ \E d \in {1, config.timeout.n - Elapsed} : Tick(d)
    \/ \E x \in ExitStatuses : ChildExit(x.returncode, x.stdout, x.stderr)
    \/ TimeoutExpired
    \/ ChildOutputUndecodable
    \/ Interrupt
    \/ \E f \in Files : FsChange(f)

Spec == Init /\ [][Next]_vars

\* subprocess.run(..., timeout=...) returns or raises: a waiting call is
\* ended by the child's exit or, at the deadline, by the kill.
Progress ==
    \/ \E d \in {config.timeout.n - Elapsed} : Tick(d)
    \/ TimeoutExpired

LiveSpec == Spec /\ WF_vars(Progress)

(***************************************************************************)
(* Properties.                                                             *)
(***************************************************************************)
\* A str of exactly 32 characters, each one of 0-9 and a-f.
Is32LowerHex(v) ==
    /\ v.t = "str"
    /\ Len(v.s) = 32
    /\ \A i \in 1..Len(v.s) : v.s[i] \in HexChars

\* An integer in the range (0, 300]; Python's bool is an integer type,
\* True being 1.
TimeoutInRange(v) == v.t \in {"int", "bool"} /\ 0 < v.n /\ v.n <= 300

RaisedConfigurationError ==
    /\ outcome.kind = "raise"
    /\ outcome.exc = "ConfigurationError"
    /\ ~config.set

\* C1: constructing a ComponentConfig with, as application_id or as
\* action_id, a string that is not exactly 32 characters of 0-9a-f raises
\* ConfigurationError and yields no config; 32 lowercase hex characters
\* are accepted for both fields.
C1_IdsValidated ==
    api = "ComponentConfig" =>
        /\ (args.application_id.t = "str" /\ ~Is32LowerHex(args.application_id))
               => RaisedConfigurationError
        /\ (args.action_id.t = "str" /\ ~Is32LowerHex(args.action_id))
               => RaisedConfigurationError
        /\ (/\ Is32LowerHex(args.application_id)
            /\ Is32LowerHex(args.action_id)
            /\ TimeoutInRange(args.timeout)
            /\ args.payload.t = "dict")
               => outcome.kind = "config" /\ config.set

\* C2: with valid IDs and a mapping payload, construction raises
\* ConfigurationError exactly for the timeouts outside (0, 300] or not an
\* integer, and succeeds for every integer 1 <= t <= 300.
C2_TimeoutRange ==
    (/\ api = "ComponentConfig"
     /\ Is32LowerHex(args.application_id)
     /\ Is32LowerHex(args.action_id)
     /\ args.payload.t = "dict")
        => IF TimeoutInRange(args.timeout)
           THEN /\ outcome.kind = "config"
                /\ config.set
                /\ config.timeout = args.timeout
           ELSE RaisedConfigurationError

\* C2: both sides of the upper boundary happen: 300 is accepted.
C2_Witness ==
    /\ api = "ComponentConfig"
    /\ Is32LowerHex(args.application_id)
    /\ Is32LowerHex(args.action_id)
    /\ args.timeout = PyInt(300)
    /\ outcome.kind = "config"
    /\ config.set

\* The rules of the validation, as the specification numbers them.
RuleViolated(n) ==
    CASE n = 1 -> ~Is32LowerHex(args.application_id)
      [] n = 2 -> ~Is32LowerHex(args.action_id)
      [] n = 3 -> ~TimeoutInRange(args.timeout)
      [] n = 4 -> IF api = "ComponentConfig" THEN args.payload.t # "dict"
                  ELSE args.payload.t \notin {"dict", "NoneType"}

\* The rule a ConfigurationError's message describes (0: none of them).
RuleDescribed(msg) ==
    CASE msg \in {MSG_APP_EMPTY, MSG_APP_HEX} -> 1
      [] msg \in {MSG_ACT_EMPTY, MSG_ACT_HEX} -> 2
      [] msg \in {MSG_TIMEOUT_POSITIVE, MSG_TIMEOUT_MAX} -> 3
      [] msg \in {MSG_PAYLOAD_DICT, MSG_INPUT_DICT} -> 4
      [] OTHER -> 0

\* C3: when the inputs of ComponentConfig(...) or of create_config violate
\* more than one rule, the ConfigurationError raised describes the
\* lowest-numbered violated rule.
C3_FailFastOrder ==
    (/\ api \in {"ComponentConfig", "create_config"}
     /\ Cardinality({n \in 1..4 : RuleViolated(n)}) > 1)
        => /\ RaisedConfigurationError
           /\ \A n \in 1..4 :
                 (RuleViolated(n) /\ \A m \in 1..(n - 1) : ~RuleViolated(m))
                     => RuleDescribed(outcome.msg) = n

\* The items of a dict, as a set.
Items(d) == {d.kv[i] : i \in 1..Len(d.kv)}

\* The entries of input map m with a string key and a non-null value.
Retained(m) ==
    IF m.t = "NoneType" THEN {}
    ELSE {e \in Items(m) : e[1].t = "str" /\ e[2] # PyNone}

\* C4: the `input` entry of the config that create_config / run_single
\* builds is one JSON string; decoded, it is the input map restricted to
\* the entries with a string key and a non-null value.
C4_InputRoundTrip ==
    (api \in {"create_config", "run_single"} /\ config.set) =>
        LET input == DictGet(config.payload.kv, INPUT_KEY, PyNone)
            decoded == JsonLoads(input.s)
        IN  /\ Len(config.payload.kv) = 1
            /\ input.t = "str"
            /\ decoded.ok
            /\ decoded.v.t = "dict"
            /\ Len(decoded.v.kv) = Cardinality(Items(decoded.v))
            /\ Items(decoded.v) = Retained(args.payload)

\* C4: {"a": 1, "b": null} is encoded as {"a": 1}.
C4_Witness ==
    /\ api = "create_config"
    /\ config.set
    /\ args.payload = PyDict(<< <<KeyA, PyInt(1)>>, <<KeyB, PyNone>> >>)
    /\ config.payload =
           PyDict(<< <<INPUT_KEY,
                       PyStr(<<"{", "\"", "a", "\"", ":", " ", "1", "}">>)>> >>)

\* C5: the argument vector has the fixed shape [runtime, "run", "--invoke",
\* expression, "-S", "http", absolute wasm path]; the payload is found only
\* in the expression, as JSON that decodes to it, between the fixed head
\* that carries the IDs and the closing "}})"; another payload changes no
\* other element.
C5_CommandShape ==
    cmd # <<>> =>
        LET head == EXPR_APP \o config.application_id.s \o EXPR_ACT
                    \o config.action_id.s \o EXPR_PAYLOAD
            expr == cmd[4]
            json == SubSeq(expr, Len(head) + 1, Len(expr) - Len(EXPR_END))
        IN  /\ Len(cmd) = 7
            /\ cmd[1] = <<"w", "a", "s", "m", "t", "i", "m", "e">>
            /\ cmd[2] = <<"r", "u", "n">>
            /\ cmd[3] = <<"-", "-", "i", "n", "v", "o", "k", "e">>
            /\ cmd[5] = <<"-", "S">>
            /\ cmd[6] = <<"h", "t", "t", "p">>
            /\ Head(cmd[7]) = "/"
            /\ cmd[7] = IF Head(config.wasm_file) = "/" THEN config.wasm_file
                        ELSE Cwd \o <<"/">> \o config.wasm_file
            /\ IsPrefix(head, expr)
            /\ IsSuffix(EXPR_END, expr)
            /\ JsonLoads(json).ok
            /\ JsonLoads(json).v = PayloadInput(config)
            /\ \A p \in Payloads :
                  LET other == BuildCommand([config EXCEPT !.payload = p], fs)
                  IN  (p.t = "dict" /\ other.err = NoError) =>
                          /\ Len(other.cmd) = Len(cmd)
                          /\ \A i \in (1..7) \ {4} : other.cmd[i] = cmd[i]

\* C5: a command was built for the payload input "); rm -rf /;" and holds
\* it with its quotes escaped.
C5_Witness ==
    /\ cmd # <<>>
    /\ PayloadInput(config) = PyStr(INJ)
    /\ Contains(cmd[4], <<"\\", "\"", ")", ";", " ", "r", "m", " ", "-", "r",
                          "f", " ", "/", ";", "\\", "\"">>)

\* C6: when the WASM file of a validated config does not exist at the time
\* of the invocation, the caller of execute_component / run_single gets
\* ConfigurationError, and no child process was started.
C6_MissingWasmIsConfigurationError ==
    (/\ api \in {"execute_component", "run_single"}
     /\ config.set
     /\ pc = "ready"
     /\ Resolve(config.wasm_file) \notin fs)
        => /\ outcome.kind = "raise"
           /\ outcome.exc = "ConfigurationError"
           /\ spawned = 0

\* t is s without its leading and trailing white space.
IsTrimOf(t, s) ==
    /\ t # <<>> => Head(t) \notin Whitespace /\ t[Len(t)] \notin Whitespace
    /\ \E i \in 0..Len(s) :
          /\ i + Len(t) <= Len(s)
          /\ SubSeq(s, i + 1, i + Len(t)) = t
          /\ \A j \in (1..i) \cup ((i + Len(t) + 1)..Len(s)) :
                s[j] \in Whitespace

ExitedResult == child.state = "exited" /\ outcome.kind \in {"result", "tuple"}

\* C7 as claimed: exit code 0 gives success, error_type none and the
\* trimmed stdout (or "Success (no output)" when that is empty); any other
\* exit code gives execution_failure and "Execution failed: " followed by
\* stderr (or "Unknown error" when stderr is empty); exit_code is the
\* child's.
C7_ExitClassification ==
    child.state = "exited" =>
        LET r == outcome.result
        IN  /\ outcome.kind \in {"result", "tuple"}
            /\ r.exit_code = child.returncode
            /\ child.returncode.n = 0 =>
                  /\ r.success
                  /\ r.error_type = "None"
                  /\ IF \A i \in 1..Len(child.stdout) :
                           child.stdout[i] \in Whitespace
                     THEN r.output = SUCCESS_NO_OUTPUT
                     ELSE IsTrimOf(r.output, child.stdout)
            /\ child.returncode.n # 0 =>
                  /\ ~r.success
                  /\ r.error_type = "execution_failure"
                  /\ r.output = EXECUTION_FAILED
                                \o (IF child.stderr = <<>> THEN UNKNOWN_ERROR
                                    ELSE child.stderr)

\* C7 amended: as claimed, except that stdout longer than MAX_OUTPUT_SIZE
\* is returned cut to MAX_OUTPUT_SIZE characters, untrimmed, with the
\* truncation marker appended, and that a non-empty stderr is trimmed
\* before it follows "Execution failed: ".
C7_ExitClassificationAmended ==
    child.state = "exited" =>
        LET r == outcome.result
        IN  /\ outcome.kind \in {"result", "tuple"}
            /\ r.exit_code = child.returncode
            /\ child.returncode.n = 0 =>
                  /\ r.success
                  /\ r.error_type = "None"
                  /\ IF Len(child.stdout) > MAX_OUTPUT_SIZE
                     THEN r.output = SubSeq(child.stdout, 1, MAX_OUTPUT_SIZE)
                                     \o TRUNCATION_MARKER
                     ELSE IF \A i \in 1..Len(child.stdout) :
                                child.stdout[i] \in Whitespace
                     THEN r.output = SUCCESS_NO_OUTPUT
                     ELSE IsTrimOf(r.output, child.stdout)
            /\ child.returncode.n # 0 =>
                  /\ ~r.success
                  /\ r.error_type = "execution_failure"
                  /\ IsPrefix(EXECUTION_FAILED, r.output)
                  /\ LET m == SubSeq(r.output, Len(EXECUTION_FAILED) + 1,
                                     Len(r.output))
                     IN  IF child.stderr = <<>> THEN m = UNKNOWN_ERROR
                         ELSE IsTrimOf(m, child.stderr)

\* C7: a child exited with code 1 and stderr "xxxx\n"; the output is
\* "Execution failed: xxxx".
C7_Witness ==
    /\ ExitedResult
    /\ child.returncode.n = 1
    /\ child.stderr = <<"x", "x", "x", "x", "\n">>
    /\ outcome.result.output = EXECUTION_FAILED \o <<"x", "x", "x", "x">>

TimeoutResult ==
    outcome.kind \in {"result", "tuple"}
    /\ outcome.result.error_type = "timeout"

\* C8: a call whose child has not exited when the timeout elapses ends
\* with the child killed and reaped and with a result of success=false,
\* error_type timeout, a message containing the configured timeout, and
\* an elapsed time of at least the timeout; no call ends with its child
\* running.
C8_Timeout ==
    /\ pc = "ready" => child.state # "running"
    /\ (pc = "ready" /\ spawned > 0) => child.reaped
    /\ (pc = "ready" /\ spawned > 0 /\ now - start_time >= config.timeout.n)
           => TimeoutResult
    /\ TimeoutResult =>
           /\ ~outcome.result.success
           /\ Contains(outcome.result.output, FormatTimeout(config.timeout))
           /\ outcome.result.execution_time.t = "float"
           /\ outcome.result.execution_time.n >= config.timeout.n
           /\ child.state = "killed"
           /\ child.reaped

\* C8: a call with timeout 300 ended by the timeout.
C8_Witness ==
    /\ TimeoutResult
    /\ config.timeout = PyInt(300)
    /\ outcome.result.execution_time.n >= 300
    /\ child.state = "killed"

\* C9: every returned result has len(output) <= MAX_OUTPUT_SIZE +
\* len(marker), and the output ends with the truncation marker whenever
\* the child's captured output exceeds MAX_OUTPUT_SIZE.
C9_OutputBounded ==
    outcome.kind \in {"result", "tuple"} =>
        /\ Len(outcome.result.output)
               <= MAX_OUTPUT_SIZE + Len(TRUNCATION_MARKER)
        /\ (child.state = "exited" /\ Len(child.stdout) > MAX_OUTPUT_SIZE)
               => IsSuffix(TRUNCATION_MARKER, outcome.result.output)

\* C10: an OSError or PermissionError raised while the child is launched
\* or run becomes a result with success=false, error_type system_error and
\* the error's text in the output; an exception that is neither that nor
\* the timeout reaches the caller as ExecutionError, never as a result.
C10_ExceptionClassification ==
    /\ raised.exc \in {"OSError", "FileNotFoundError", "PermissionError"} =>
           /\ outcome.kind \in {"result", "tuple"}
           /\ ~outcome.result.success
           /\ outcome.result.error_type = "system_error"
           /\ Contains(outcome.result.output, raised.msg)
           /\ outcome.kind = "tuple" =>
                 outcome.value = <<FALSE, outcome.result.output>>
    /\ raised.exc \in {"ConfigurationError", "ExecutionError", "TypeError",
                       "UnicodeDecodeError", "WasmEnvironmentError"} =>
           /\ outcome.kind = "raise"
           /\ outcome.exc = "ExecutionError"
           /\ Contains(outcome.msg, raised.msg)

\* C10: the runtime executable was gone when run_single launched it, and
\* the caller got (False, "System error: [Errno 2] ...").
C10_Witness ==
    /\ raised.exc = "FileNotFoundError"
    /\ outcome.kind = "tuple"
    /\ outcome.result.error_type = "system_error"
    /\ outcome.result.output = SYSTEM_ERROR \o ENOENT

\* The runtime executable is not resolvable on the search path.
RuntimeMissing == CLI_TOOL \notin path

\* A runner constructor was called and no runner, no config, no call and
\* no child process came of it.
NothingUsable ==
    /\ ~HasWasmRunner
    /\ ~runner.set
    /\ ~config.set
    /\ spawned = 0
    /\ child.state = "none"
    /\ cmd = <<>>
    /\ log = <<>>

\* An invocation was attempted: execute_component was entered.
InvocationAttempted == log # <<>> \/ spawned > 0 \/ pc = "waiting"

\* C11 as claimed: for any constructor arguments, constructing a runner
\* while the runtime is not on the search path raises WasmEnvironmentError
\* with install guidance, leaves no usable runner and spawns no process;
\* every invocation attempt is preceded by a successful environment check.
C11_EnvironmentChecked ==
    /\ (ctor.cls # "none" /\ RuntimeMissing) =>
           /\ ctor.exc = "WasmEnvironmentError"
           /\ Contains(ctor.msg, <<"I", "n", "s", "t", "a", "l", "l", " ">>)
           /\ NothingUsable
    /\ InvocationAttempted => (HasWasmRunner /\ ~RuntimeMissing)

\* C11 amended: as claimed, except that a log_level that names no logging
\* level makes the constructor raise ConfigurationError("Invalid log
\* level: ...") before the environment is checked; also then no runner is
\* usable and no process is spawned.
C11_EnvironmentCheckedAmended ==
    /\ (ctor.cls # "none" /\ RuntimeMissing) =>
           /\ \/ /\ ctor.exc = "WasmEnvironmentError"
                 /\ Contains(ctor.msg,
                             <<"I", "n", "s", "t", "a", "l", "l", " ">>)
              \/ /\ ctor.exc = "ConfigurationError"
                 /\ IsPrefix(MSG_INVALID_LOG_LEVEL, ctor.msg)
                 /\ Upper(SubSeq(ctor.msg, Len(MSG_INVALID_LOG_LEVEL) + 1,
                                 Len(ctor.msg))) \notin LoggingLevels
           /\ NothingUsable
    /\ (ctor.exc = "ConfigurationError") => NothingUsable
    /\ InvocationAttempted => (HasWasmRunner /\ ~RuntimeMissing)

\* C11: a BettyBlocksRunner was constructed by a library caller with a
\* valid log level while the runtime was missing.
C11_Witness ==
    /\ api = "none"
    /\ ctor.cls = "BettyBlocksRunner"
    /\ RuntimeMissing
    /\ ctor.exc = "WasmEnvironmentError"
    /\ ctor.msg = MSG_CLI_NOT_FOUND

\* The exit status the specification gives an exception class.
ExpectedExit(exc) ==
    CASE exc = "ConfigurationError" -> 2
      [] exc = "WasmEnvironmentError" -> 3
      [] exc = "ExecutionError" -> 4
      [] exc = "KeyboardInterrupt" -> 130
      [] OTHER -> 1

\* C12: main() ends the process with exactly one exit status: 0 for a
\* successful result, 1 for an unsuccessful one or an unclassified
\* exception, 2 for ConfigurationError, 3 for WasmEnvironmentError, 4 for
\* ExecutionError, 130 for KeyboardInterrupt.
C12_ExitCodes ==
    /\ sys_exit # PyNone => (api = "main" /\ pc = "ready")
    /\ (api = "main" /\ outcome.kind # "none") =>
           /\ sys_exit.t = "int"
           /\ outcome.kind \in {"tuple", "raise"}
           /\ outcome.kind = "tuple" =>
                 sys_exit.n = IF outcome.result.success THEN 0 ELSE 1
           /\ outcome.kind = "raise" => sys_exit.n = ExpectedExit(outcome.exc)
    /\ \A exc \in ExceptionClasses \cup {"KeyboardInterrupt", "ValueError"} :
           MainExit(Raised(Raise(exc, <<>>))) = PyInt(ExpectedExit(exc))

\* C12: the child of main() exited with a non-zero code and the process
\* ended with status 1.
C12_Witness ==
    /\ api = "main"
    /\ outcome.kind = "tuple"
    /\ ~outcome.result.success
    /\ child.state = "exited"
    /\ sys_exit = PyInt(1)

\* A child process is started in this step.
ChildStarts == child'.state = "running" /\ child.state # "running"

\* C13: one call spawns at most one child and reports exactly one outcome;
\* a child is started only by a step in which the caller begins a call,
\* never after a failed, timed-out or system-error outcome by itself.
C13_NoRetry ==
    /\ [](spawned <= 1)
    /\ [](pc = "waiting" =>
              (spawned = 1 /\ child.state = "running"
               /\ outcome.kind = "none"))
    /\ []((pc = "ready" /\ log # <<>>) =>
              (/\ outcome.kind \in {"result", "tuple", "raise"}
               /\ child.state # "running"
               /\ spawned = IF child.state = "none" THEN 0 ELSE 1))
    /\ [][ChildStarts => (pc = "ready" /\ pc' = "waiting" /\ spawned' = 1
                          /\ api' \in {"execute_component", "run_single",
                                       "__call__", "main"}
                          /\ log' = <<LOG_STARTING>>)]_vars
    /\ [][(pc = "waiting" /\ pc' = "waiting") =>
              (child' = child /\ spawned' = spawned)]_vars

\* C13: a run_single call ended by the timeout, with its single child
\* killed.
C13_Witness ==
    /\ api = "run_single"
    /\ pc = "ready"
    /\ spawned = 1
    /\ child.state = "killed"
    /\ outcome.kind = "tuple"
    /\ outcome.result.error_type = "timeout"

\* C14: in run_single and __call__ a child is spawned only for a config
\* that went through the validation of IDs, timeout and payload shape,
\* and a call that ends in ConfigurationError has started no child.
C14_ValidatedBeforeSpawn ==
    /\ (api \in {"run_single", "__call__"} /\ InvocationAttempted) =>
           /\ config.set
           /\ config.application_id = args.application_id
           /\ config.action_id = args.action_id
           /\ config.timeout = runner.timeout
           /\ ValidateIds(config.application_id, config.action_id) = NoError
           /\ ValidateTimeout(config.timeout) = NoError
           /\ ValidatePayload(config.payload) = NoError
           /\ args.payload.t \in {"dict", "NoneType"}
    /\ (/\ api \in {"run_single", "__call__"}
        /\ outcome.kind = "raise"
        /\ outcome.exc = "ConfigurationError") =>
           /\ spawned = 0
           /\ child.state = "none"
           /\ ~InvocationAttempted

\* C14: __call__ on a runner constructed without IDs raised
\* ConfigurationError and no child was started.
C14_Witness ==
    /\ api = "__call__"
    /\ runner.application_id = PyNone
    /\ outcome.kind = "raise"
    /\ outcome.exc = "ConfigurationError"
    /\ outcome.msg = MSG_IDS_NOT_SET
    /\ spawned = 0

\* C15: the fields of a successfully constructed ComponentConfig are the
\* same in every later state, whatever the caller does (attribute
\* assignment, execute_component, mutation of the map it passed as
\* payload); a construction that fails leaves no config.
C15_ConfigImmutable ==
    /\ [][config.set => config' = config]_vars
    /\ []((api \in {"ComponentConfig", "create_config"}
           /\ outcome.kind = "raise") => config = NoConfig)

\* The events of a call that has started and not ended, and of one that
\* has ended.
LogOpen == log = <<LOG_STARTING>>

LogClosed == log = <<LOG_STARTING, LOG_COMPLETED>>

\* C16: every returned result carries an execution_time that is a number
\* and not negative, and in every call "Starting component execution" is
\* followed, eventually, by exactly one "Execution completed", also when
\* the call raises.
C16_ElapsedReported ==
    /\ [](outcome.kind \in {"result", "tuple"} =>
              (/\ outcome.result.execution_time.t = "float"
               /\ outcome.result.execution_time.n >= 0))
    /\ [](log \in {<<>>, <<LOG_STARTING>>, <<LOG_STARTING, LOG_COMPLETED>>})
    /\ [](pc = "waiting" => LogOpen)
    /\ []((pc = "ready" /\ InvocationAttempted) => LogClosed)
    /\ (LogOpen ~> LogClosed)

\* C16: a call that started a child ended by raising ExecutionError and
\* logged both events.
C16_Witness ==
    /\ spawned = 1
    /\ outcome.kind = "raise"
    /\ outcome.exc = "ExecutionError"
    /\ LogClosed

\* C17: for a payload without an `input` entry the invoke expression
\* embeds the empty JSON object, and the builder of runners.py and the one
\* of main.py return the same expression for every config.
C17_BuildersAgree ==
    (config.set /\ JsonSerializable(PayloadInput(config))) =>
        /\ BuildInvokeExpressionMain(config) = BuildInvokeExpression(config)
        /\ (\A i \in 1..Len(config.payload.kv) :
               config.payload.kv[i][1] # INPUT_KEY) =>
              \A e \in {BuildInvokeExpression(config),
                        BuildInvokeExpressionMain(config)} :
                 Contains(e, <<"p", "a", "y", "l", "o", "a", "d", ":", " ",
                               "{", "i", "n", "p", "u", "t", ":", " ", "{",
                               "}", "}">>)

\* C18: in every result of execute_component, success, error_type none
\* and exit_code 0 go together; exit_code is None exactly for timeout and
\* system_error, and a non-zero integer exactly for execution_failure.
C18_ResultConsistent ==
    outcome.kind \in {"result", "tuple"} =>
        LET r == outcome.result
        IN  /\ r.success \in BOOLEAN
            /\ r.error_type \in {"None", "execution_failure", "timeout",
                                 "system_error"}
            /\ r.exit_code.t \in {"int", "NoneType"}
            /\ r.success <=> r.error_type = "None"
            /\ r.success <=> (r.exit_code.t = "int" /\ r.exit_code.n = 0)
            /\ r.exit_code.t = "NoneType"
                   <=> r.error_type \in {"timeout", "system_error"}
            /\ (r.exit_code.t = "int" /\ r.exit_code.n # 0)
                   <=> r.error_type = "execution_failure"

\* C18: a child killed by a signal: exit code -9, execution_failure.
C18_Witness ==
    /\ outcome.kind = "result"
    /\ child.state = "exited"
    /\ outcome.result.exit_code = PyInt(-9)
    /\ outcome.result.error_type = "execution_failure"
    /\ ~outcome.result.success

====
